---- MODULE Spec2Model ----
(***************************************************************************)
(* State-machine model of the textcomplete dropdown: the Dropdown class    *)
(* (src/unnamed/part_000) and the DropdownItem class                       *)
(* (src/src/dropdown-item.js).                                             *)
(*                                                                         *)
(* Every public method of Dropdown is one action, and so is a direct call  *)
(* of the public activate() and deactivate() of an item of the collection. *)
(* A method is an operator from the object before the call to the object   *)
(* after it, composed the way the code chains its calls.  Observers are the set "veto" of the     *)
(* cancelable event types whose default they prevent during the call.      *)
(*                                                                         *)
(* Array indexes are the code's zero-based indexes; At(arr, i) reads       *)
(* arr[i].  Items are shared objects in the code, so an item is always     *)
(* addressed by its index in the items array.                              *)
(*                                                                         *)
(* Dropdown.clear calls item.destroy() on every item, a method the item    *)
(* class does not define (its teardown method is finalize()): with an item *)
(* in the collection the call throws a TypeError.  A throw ends the method *)
(* and every method that called it; the field "error" of the object        *)
(* carries it, and what was assigned and emitted before the throw stays.   *)
(* Pixel positioning (setOffset), className and style are not modelled.    *)
(***************************************************************************)
EXTENDS Integers, Sequences, FiniteSets, TLC

VARIABLES options, maxCount, rotate, shown, items, el,
          events, prevented, lastOp, lastBatch, navHandled,
          lastVis, downs, prevHide, destroys, threw

vars == <<options, maxCount, rotate, shown, items, el,
          events, prevented, lastOp, lastBatch, navHandled,
          lastVis, downs, prevHide, destroys, threw>>

(***************************************************************************)
(* Bounds and input domains                                                *)
(***************************************************************************)
MaxBatchLen == 2
MaxConfigCount == 1
MaxDestroys == 2

DEFAULT_MAX_COUNT == 10

Undefined == -1

Candidates == {"A", "B"}

\* strategy.props.id of a search result; "" is a strategy without id
StrategyIdOf == [c \in Candidates |-> IF c = "A" THEN "mention" ELSE ""]

ShortBatches == UNION {[1..n -> Candidates] : n \in 0..MaxBatchLen}

Batches == ShortBatches

Cancelable == {"render", "show", "hide", "select"}

\* what the observers of one call cancel: nothing, or one of the cancelable
\* events the call can emit.  Canceling the first event of a call (render,
\* select) ends the call before the second one (show, hide) is emitted, so
\* canceling both is the same call as canceling the first.
Vetoes(types) == {{}} \cup {{t} : t \in types}

OptionSets == [maxCount : {Undefined} \cup (0..MaxConfigCount),
               rotate : {"absent", "false"}]

NoDetail == "none"

(***************************************************************************)
(* JavaScript helpers                                                      *)
(***************************************************************************)
Min(a, b) == IF a < b THEN a ELSE b

Max(a, b) == IF a > b THEN a ELSE b

\* a || b for a number-or-undefined a
OrElse(a, b) == IF a = Undefined \/ a = 0 THEN b ELSE a

\* Array.prototype.slice(0, end)
ArraySlice(arr, end) ==
  LET stop == IF end < 0 THEN Max(Len(arr) + end, 0) ELSE Min(end, Len(arr))
  IN SubSeq(arr, 1, stop)

InRange(arr, i) == i >= 0 /\ i < Len(arr)

At(arr, i) == arr[i + 1]

(***************************************************************************)
(* DropdownItem                                                            *)
(***************************************************************************)
DropdownItem(searchResult) ==
  [searchResult |-> searchResult, active |-> FALSE, index |-> Undefined]

activate(item) ==
  IF ~item.active THEN [item EXCEPT !.active = TRUE] ELSE item

itemDeactivate(item) ==
  IF item.active THEN [item EXCEPT !.active = FALSE] ELSE item

appended(item, siblings) ==
  LET indexed == [item EXCEPT !.index = Len(siblings) - 1]
  IN IF indexed.index = 0 THEN activate(indexed) ELSE indexed

\* index of the next sibling
next(item, siblings) ==
  IF item.index = Len(siblings) - 1 THEN 0 ELSE item.index + 1

prevNoWrap(item, siblings) == item.index - 1

\* index of the previous sibling
prev(item, siblings) ==
  (IF item.index = 0 THEN Len(siblings) ELSE item.index) - 1

(***************************************************************************)
(* Dropdown                                                                *)
(***************************************************************************)
NullEl == [isNull |-> TRUE, display |-> "none", attached |-> FALSE,
           children |-> <<>>, dataStrategy |-> ""]

createElement == [isNull |-> FALSE, display |-> "none", attached |-> TRUE,
                  children |-> <<>>, dataStrategy |-> ""]

\* the getter: materialises the element when there is none
WithEl(d) == IF d.el.isNull THEN [d EXCEPT !.el = createElement] ELSE d

ConstructMaxCount(opts) == OrElse(opts.maxCount, DEFAULT_MAX_COUNT)

ConstructRotate(opts) == IF opts.rotate # "absent" THEN opts.rotate = "true" ELSE TRUE

Emit(d, type, detail, veto) ==
  [d EXCEPT !.emitted = Append(@, [type |-> type, detail |-> detail]),
            !.prevented = IF type \in veto THEN @ \cup {type} ELSE @]

\* items.forEach(item => item.destroy()) throws on the first item
clear(d) ==
  LET wiped == [WithEl(d) EXCEPT !.el.children = <<>>]
  IN IF wiped.items # <<>>
     THEN [wiped EXCEPT !.error = TRUE]
     ELSE [wiped EXCEPT !.items = <<>>]

showUnguarded(d, veto) ==
  LET d1 == Emit(d, "show", NoDetail, veto)
  IN IF "show" \in veto
     THEN d1
     ELSE Emit([WithEl(d1) EXCEPT !.el.display = "block", !.shown = TRUE],
               "shown", NoDetail, veto)

show(d, veto) ==
  IF ~d.shown
  THEN LET d1 == Emit(d, "show", NoDetail, veto)
       IN IF "show" \in veto
          THEN d1
          ELSE Emit([WithEl(d1) EXCEPT !.el.display = "block", !.shown = TRUE],
                    "shown", NoDetail, veto)
  ELSE d

hideUnguarded(d, veto) ==
  LET d1 == Emit(d, "hide", NoDetail, veto)
  IN IF "hide" \in veto
     THEN d1
     ELSE Emit([WithEl(d1) EXCEPT !.el.display = "none", !.shown = FALSE],
               "hidden", NoDetail, veto)

hide(d, veto) ==
  IF d.shown
  THEN LET d1 == Emit(d, "hide", NoDetail, veto)
       IN IF "hide" \in veto
          THEN d1
          ELSE Emit([WithEl(d1) EXCEPT !.el.display = "none", !.shown = FALSE],
                    "hidden", NoDetail, veto)
  ELSE d

setStrategyId(d, searchResults) ==
  LET strategyId == IF Len(searchResults) > 0 THEN StrategyIdOf[searchResults[1]] ELSE ""
  IN [WithEl(d) EXCEPT !.el.dataStrategy = strategyId]

renderEdge(d, type) ==
  [WithEl(d) EXCEPT !.el.children = Append(@, "textcomplete-" \o type)]

RECURSIVE appendEach(_, _)
appendEach(its, newItems) ==
  IF newItems = <<>>
  THEN its
  ELSE LET pushed == Append(its, Head(newItems))
           linked == [pushed EXCEPT ![Len(pushed)] = appended(Head(newItems), pushed)]
       IN appendEach(linked, Tail(newItems))

append(d, newItems) ==
  LET d1 == [d EXCEPT !.items = appendEach(d.items, newItems)]
  IN [WithEl(d1) EXCEPT !.el.children =
        @ \o [i \in 1..Len(newItems) |-> newItems[i].searchResult]]

renderClearsBeforeCancel(d, searchResults, veto) ==
  LET cleared == clear(d)
      d1 == Emit(cleared, "render", NoDetail, veto)
  IN IF cleared.error \/ "render" \in veto
     THEN (IF cleared.error THEN cleared ELSE d1)
     ELSE LET sliced == ArraySlice(searchResults, OrElse(d.maxCount, Len(searchResults)))
              dropdownItems == [i \in 1..Len(sliced) |-> DropdownItem(sliced[i])]
              d2 == show(renderEdge(append(renderEdge(setStrategyId(d1,
                           searchResults), "header"), dropdownItems), "footer"), veto)
          IN Emit(d2, "rendered", NoDetail, veto)

renderAbortsWhenShowCanceled(d, searchResults, veto) ==
  LET d1 == Emit(d, "render", NoDetail, veto)
  IN IF "render" \in veto
     THEN d1
     ELSE LET sliced == ArraySlice(searchResults, OrElse(d.maxCount, Len(searchResults)))
              dropdownItems == [i \in 1..Len(sliced) |-> DropdownItem(sliced[i])]
              cleared == clear(d1)
              d2 == show(renderEdge(append(renderEdge(setStrategyId(cleared,
                           searchResults), "header"), dropdownItems), "footer"), veto)
          IN IF cleared.error \/ "show" \in d2.prevented
             THEN (IF cleared.error THEN cleared ELSE d2)
             ELSE Emit(d2, "rendered", NoDetail, veto)

render(d, searchResults, veto) ==
  LET d1 == Emit(d, "render", NoDetail, veto)
  IN IF "render" \in veto
     THEN d1
     ELSE LET sliced == ArraySlice(searchResults, OrElse(d.maxCount, Len(searchResults)))
              dropdownItems == [i \in 1..Len(sliced) |-> DropdownItem(sliced[i])]
              cleared == clear(d1)
              d2 == show(renderEdge(append(renderEdge(setStrategyId(cleared,
                           searchResults), "header"), dropdownItems), "footer"), veto)
          IN IF cleared.error THEN cleared ELSE Emit(d2, "rendered", NoDetail, veto)

deactivate(d, veto) == clear(hide(d, veto))

selectIgnoresCancel(d, dropdownItem, veto) ==
  LET detail == dropdownItem.searchResult
      d1 == Emit(d, "select", detail, veto)
      d2 == deactivate(d1, veto)
  IN IF d2.error THEN d2 ELSE Emit(d2, "selected", detail, veto)

select(d, dropdownItem, veto) ==
  LET detail == dropdownItem.searchResult
      d1 == Emit(d, "select", detail, veto)
      d2 == deactivate(d1, veto)
  IN IF "select" \in veto
     THEN d1
     ELSE IF d2.error THEN d2 ELSE Emit(d2, "selected", detail, veto)

\* index of the first active item, Undefined when there is none
getActiveItem(its) ==
  IF \E i \in 0..(Len(its) - 1) : At(its, i).active
  THEN CHOOSE i \in 0..(Len(its) - 1) :
         At(its, i).active /\ \A j \in 0..(i - 1) : ~At(its, j).active
  ELSE Undefined

moveActiveItemDeactivatesCurrent(d, name) ==
  LET activeItem == getActiveItem(d.items)
      nextActiveItem ==
        IF activeItem # Undefined
        THEN IF name = "next" THEN next(At(d.items, activeItem), d.items)
                              ELSE prev(At(d.items, activeItem), d.items)
        ELSE IF name = "next" THEN 0 ELSE Len(d.items) - 1
      released == IF activeItem # Undefined
                  THEN [d EXCEPT !.items[activeItem + 1] = itemDeactivate(@)]
                  ELSE d
  IN IF InRange(d.items, nextActiveItem)
     THEN [this |-> [released EXCEPT !.items[nextActiveItem + 1] = activate(@)],
           defaultPrevented |-> TRUE]
     ELSE [this |-> d, defaultPrevented |-> FALSE]

\* the object after the call, and whether e.preventDefault() was called
moveActiveItem(d, name) ==
  LET activeItem == getActiveItem(d.items)
      nextActiveItem ==
        IF activeItem # Undefined
        THEN IF name = "next" THEN next(At(d.items, activeItem), d.items)
                              ELSE prev(At(d.items, activeItem), d.items)
        ELSE IF name = "next" THEN 0 ELSE Len(d.items) - 1
  IN IF InRange(d.items, nextActiveItem)
     THEN [this |-> [d EXCEPT !.items[nextActiveItem + 1] = activate(@)],
           defaultPrevented |-> TRUE]
     ELSE [this |-> d, defaultPrevented |-> FALSE]

up(d) == IF d.shown THEN moveActiveItem(d, "prev")
                    ELSE [this |-> d, defaultPrevented |-> FALSE]

downUnguarded(d) == moveActiveItem(d, "next")

down(d) == IF d.shown THEN moveActiveItem(d, "next")
                      ELSE [this |-> d, defaultPrevented |-> FALSE]

destroy(d) ==
  LET d1 == WithEl(d)
      d2 == IF d1.el.attached THEN [d1 EXCEPT !.el.attached = FALSE] ELSE d1
      cleared == clear(d2)
  IN IF cleared.error THEN cleared ELSE [cleared EXCEPT !.el = NullEl]

(***************************************************************************)
(* The state machine                                                       *)
(***************************************************************************)
NoRun == Undefined

NoBatch == <<"-">>

\* the dropdown object at the start of a call
This == [shown |-> shown, items |-> items, el |-> el,
         maxCount |-> maxCount, rotate |-> rotate,
         emitted |-> <<>>, prevented |-> {}, error |-> FALSE]

EventTypes(evs) == {evs[i].type : i \in 1..Len(evs)}

\* the last of the shown/hidden events emitted so far
VisAfter(evs) ==
  IF "shown" \in EventTypes(evs) THEN "shown"
  ELSE IF "hidden" \in EventTypes(evs) THEN "hidden"
  ELSE lastVis

\* what a hide call did, read off its events
HideOutcome(evs, canceled) ==
  IF "hide" \in canceled THEN "vetoed"
  ELSE IF "hidden" \in EventTypes(evs) THEN "hidden"
  ELSE "noop"

Commit(d, op) ==
  /\ shown' = d.shown
  /\ items' = d.items
  /\ el' = d.el
  /\ events' = d.emitted
  /\ prevented' = d.prevented
  /\ lastOp' = op
  /\ lastVis' = VisAfter(d.emitted)
  /\ prevHide' = IF op = "hide" /\ lastOp = "hide"
                 THEN HideOutcome(events, prevented) ELSE "none"
  /\ destroys' = IF op = "destroy" THEN Min(destroys + 1, MaxDestroys) ELSE 0
  /\ threw' = d.error
  /\ UNCHANGED <<options, maxCount, rotate>>

Init ==
  /\ options \in OptionSets
  /\ maxCount = ConstructMaxCount(options)
  /\ rotate = ConstructRotate(options)
  /\ shown = FALSE
  /\ items = <<>>
  /\ el = createElement
  /\ events = <<>>
  /\ prevented = {}
  /\ lastOp = "new"
  /\ lastBatch = NoBatch
  /\ navHandled = FALSE
  /\ lastVis = "none"
  /\ downs = NoRun
  /\ prevHide = "none"
  /\ destroys = 0
  /\ threw = FALSE

Render ==
  /\ \E searchResults \in Batches, veto \in Vetoes({"render", "show"}) :
       LET d == render(This, searchResults, veto)
       IN /\ Commit(d, "render")
          /\ lastBatch' = IF "render" \in veto THEN NoBatch ELSE searchResults
          /\ downs' = IF "render" \notin veto /\ ~d.error /\ d.shown /\ d.items # <<>>
                      THEN 0 ELSE NoRun
  /\ navHandled' = FALSE

Select ==
  /\ \E i \in 0..(Len(items) - 1), veto \in Vetoes({"select", "hide"}) :
       Commit(select(This, At(items, i), veto), "select")
  /\ downs' = NoRun
  /\ navHandled' = FALSE
  /\ lastBatch' = NoBatch

Up ==
  /\ LET r == up(This)
     IN Commit(r.this, "up") /\ navHandled' = r.defaultPrevented
  /\ downs' = NoRun
  /\ lastBatch' = NoBatch

Down ==
  /\ LET r == down(This)
     IN Commit(r.this, "down") /\ navHandled' = r.defaultPrevented
  /\ downs' = IF downs # NoRun /\ downs < Len(items) THEN downs + 1 ELSE NoRun
  /\ lastBatch' = NoBatch

Show ==
  /\ \E veto \in Vetoes({"show"}) : Commit(show(This, veto), "show")
  /\ downs' = NoRun
  /\ navHandled' = FALSE
  /\ lastBatch' = NoBatch

Hide ==
  /\ \E veto \in Vetoes({"hide"}) : Commit(hide(This, veto), "hide")
  /\ downs' = NoRun
  /\ navHandled' = FALSE
  /\ lastBatch' = NoBatch

Clear ==
  /\ Commit(clear(This), "clear")
  /\ downs' = NoRun
  /\ navHandled' = FALSE
  /\ lastBatch' = NoBatch

Deactivate ==
  /\ \E veto \in Vetoes({"hide"}) : Commit(deactivate(This, veto), "deactivate")
  /\ downs' = NoRun
  /\ navHandled' = FALSE
  /\ lastBatch' = NoBatch

Destroy ==
  /\ Commit(destroy(This), "destroy")
  /\ downs' = NoRun
  /\ navHandled' = FALSE
  /\ lastBatch' = NoBatch

\* items[i].activate() called from outside the dropdown
ItemActivate ==
  /\ \E i \in 0..(Len(items) - 1) :
       Commit([This EXCEPT !.items[i + 1] = activate(@)], "item.activate")
  /\ downs' = NoRun
  /\ navHandled' = FALSE
  /\ lastBatch' = NoBatch

\* items[i].deactivate() called from outside the dropdown
ItemDeactivate ==
  /\ \E i \in 0..(Len(items) - 1) :
       Commit([This EXCEPT !.items[i + 1] = itemDeactivate(@)], "item.deactivate")
  /\ downs' = NoRun
  /\ navHandled' = FALSE
  /\ lastBatch' = NoBatch

\* the calls of the dropdown's own methods
DropdownNext ==
  \/ Render
  \/ Select
  \/ Up
  \/ Down
  \/ Show
  \/ Hide
  \/ Clear
  \/ Deactivate
  \/ Destroy

Next ==
  \/ DropdownNext
  \/ ItemActivate
  \/ ItemDeactivate

Spec == Init /\ [][Next]_vars

\* the behaviours in which only the dropdown's own methods are called
DropdownSpec == Init /\ [][DropdownNext]_vars

TypeOK ==
  /\ shown \in BOOLEAN
  /\ maxCount \in 1..DEFAULT_MAX_COUNT
  /\ rotate \in BOOLEAN
  /\ \A i \in 0..(Len(items) - 1) :
       At(items, i).index = i /\ At(items, i).searchResult \in Candidates
  /\ lastVis \in {"none", "shown", "hidden"}

(***************************************************************************)
(* Properties                                                              *)
(***************************************************************************)
ActiveSet == {i \in 0..(Len(items) - 1) : At(items, i).active}

Ev(type) == [type |-> type, detail |-> NoDetail]

EvWith(type, detail) == [type |-> type, detail |-> detail]

\* the last call was a render whose render event was not canceled
RenderedNow == lastOp = "render" /\ "render" \notin prevented

\* the maxCount the caller configured, the documented default when unset
ConfiguredMaxCount ==
  IF options.maxCount = Undefined THEN DEFAULT_MAX_COUNT ELSE options.maxCount

\* C1: in every state reached by calls of the dropdown's own methods
\* (DropdownSpec) at most one item of the collection is active.
C1_AtMostOneActive == Cardinality(ActiveSet) <= 1

\* C2: with rotate on, after k consecutive down calls following a render that
\* left a non-empty collection shown, the active item is the item at index k
\* for 0 < k < items.length, and the first item again for k = items.length.
C2_DownCycles ==
  (rotate /\ downs # NoRun) =>
    /\ (0 < downs /\ downs < Len(items)) => getActiveItem(items) = downs
    /\ downs = Len(items) => getActiveItem(items) = 0

\* C3: with rotate off, down while the last item is the active item changes
\* nothing, and up while the first item is the active item changes nothing
\* (navigation does not wrap past either end).
C3_NoWrapWithoutRotate ==
  [][(~rotate /\ shown /\ items # <<>>) =>
       /\ (lastOp' = "down" /\ getActiveItem(items) = Len(items) - 1) => items' = items
       /\ (lastOp' = "up" /\ getActiveItem(items) = 0) => items' = items]_vars

\* C4: a render of a non-empty batch returns with exactly one item active,
\* the item at index 0, which wraps the top-ranked candidate of the batch,
\* whatever was rendered or active before.
C4_FirstActiveAfterRender ==
  (RenderedNow /\ lastBatch # <<>>) =>
    /\ ~threw
    /\ ActiveSet = {0}
    /\ At(items, 0).searchResult = lastBatch[1]

\* C5: after a render, items.length = min(configured maxCount,
\* candidates.length) for every configured maxCount, 0 and unset included, and
\* items.length <= configured maxCount.
C5_LengthIsMinOfConfigured ==
  RenderedNow =>
    /\ Len(items) = Min(ConfiguredMaxCount, Len(lastBatch))
    /\ Len(items) <= ConfiguredMaxCount

\* C6: a render whose render event is canceled leaves items, every active
\* flag, shown and the view as they were, raises nothing and emits nothing
\* but the render event.
C6_CanceledRenderChangesNothing ==
  [][(lastOp' = "render" /\ "render" \in prevented') =>
       /\ ~threw'
       /\ items' = items
       /\ shown' = shown
       /\ el' = el
       /\ events' = <<Ev("render")>>]_vars

C6_Witness ==
  /\ lastOp = "render"
  /\ "render" \in prevented
  /\ shown
  /\ Len(items) >= 2
  /\ ActiveSet # {}
  /\ el.children # <<>>

\* C7: a select whose select event is canceled leaves shown, items, the
\* active flags and the view as they were, raises nothing and emits nothing
\* but the select event.
C7_CanceledSelectChangesNothing ==
  [][(lastOp' = "select" /\ "select" \in prevented') =>
       /\ ~threw'
       /\ items' = items
       /\ shown' = shown
       /\ el' = el
       /\ Len(events') = 1
       /\ events'[1].type = "select"]_vars

C7_Witness ==
  /\ lastOp = "select"
  /\ "select" \in prevented
  /\ shown
  /\ items # <<>>
  /\ el.children # <<>>
  /\ getActiveItem(items) = 0

\* the events of a select call that ran to its end
SelectEvents(c, wasShown) ==
  IF wasShown
  THEN <<EvWith("select", c), Ev("hide"), Ev("hidden"), EvWith("selected", c)>>
  ELSE <<EvWith("select", c), EvWith("selected", c)>>

\* C8: a select whose select event is not canceled emits select, then hide
\* and hidden when the dropdown was shown, then selected with the same
\* candidate, and leaves no items, the view hidden and no active item.
C8_SelectCompletes ==
  [][(lastOp' = "select" /\ "select" \notin prevented') =>
       /\ ~threw'
       /\ \E i \in 0..(Len(items) - 1) :
            events' = SelectEvents(At(items, i).searchResult, shown)
       /\ items' = <<>>
       /\ ~shown'
       /\ getActiveItem(items') = Undefined]_vars

\* C9 as stated: a hide call that directly follows a hide call emits no
\* event, whatever happened in the first call.
C9_SecondHideSilent ==
  (lastOp = "hide" /\ prevHide # "none") => events = <<>>

\* C9 amended: a hide call that directly follows a hide call whose hide event
\* was not canceled emits no event and leaves the dropdown hidden.
C9_SecondHideSilentUnlessCanceled ==
  (lastOp = "hide" /\ prevHide \in {"hidden", "noop"}) => (events = <<>> /\ ~shown)

C9_Witness ==
  /\ lastOp = "hide"
  /\ prevHide = "hidden"
  /\ events = <<>>
  /\ ~shown

\* C10: the shown flag is true exactly when the last of the shown/hidden
\* events was shown; shown is emitted only after none or hidden, hidden only
\* after shown; show is emitted only while the flag is false, hide only while
\* it is true; and the flag changes only together with its event.
C10_LockStep ==
  /\ [](shown <=> lastVis = "shown")
  /\ [][/\ "shown" \in EventTypes(events') => (lastVis # "shown" /\ ~shown /\ shown')
        /\ "hidden" \in EventTypes(events') => (lastVis = "shown" /\ shown /\ ~shown')
        /\ "show" \in EventTypes(events') => ~shown
        /\ "hide" \in EventTypes(events') => shown
        /\ (shown' /\ ~shown) => "shown" \in EventTypes(events')
        /\ (shown /\ ~shown') => "hidden" \in EventTypes(events')]_vars

C10_Witness ==
  /\ lastOp = "render"
  /\ shown
  /\ events = <<Ev("render"), Ev("rendered")>>
  /\ lastVis = "shown"

\* C11: when the hide event is canceled inside a select whose select event
\* is not canceled, shown stays true and no hidden event is emitted, yet the
\* collection is emptied and selected is emitted with the chosen candidate.
C11_HideCanceledInSelect ==
  [][(lastOp' = "select" /\ prevented' = {"hide"}) =>
       /\ shown /\ shown'
       /\ "hidden" \notin EventTypes(events')
       /\ items' = <<>>
       /\ \E i \in 0..(Len(items) - 1) :
            LET c == At(items, i).searchResult
            IN events' = <<EvWith("select", c), Ev("hide"), EvWith("selected", c)>>]_vars

\* C12: when the show event is canceled inside a render whose render event
\* is not canceled, the new items are in the collection with the first one
\* active, shown stays false, no shown event is emitted, and rendered is
\* emitted exactly once, as the last event of the call.
C12_ShowCanceledInRender ==
  [][(lastOp' = "render" /\ prevented' = {"show"}) =>
       /\ ~threw'
       /\ ~shown /\ ~shown'
       /\ Len(items') = Min(maxCount, Len(lastBatch'))
       /\ \A i \in 0..(Len(items') - 1) :
            /\ At(items', i).searchResult = lastBatch'[i + 1]
            /\ At(items', i).active <=> i = 0
       /\ events' = <<Ev("render"), Ev("show"), Ev("rendered")>>]_vars

C12_Witness ==
  /\ lastOp = "render"
  /\ prevented = {"show"}
  /\ ~shown
  /\ Len(items) >= 2
  /\ ActiveSet = {0}
  /\ events[Len(events)].type = "rendered"

\* C13: up and down on a dropdown that is not shown change no item and do
\* not mark the navigation event handled; on a shown dropdown the event is
\* marked handled exactly when the collection is non-empty, and on an empty
\* collection nothing changes.
C13_NavigationGuard ==
  [][(lastOp' \in {"up", "down"}) =>
       /\ ~threw'
       /\ ~shown => (items' = items /\ ~navHandled')
       /\ shown => (navHandled' <=> items # <<>>)
       /\ items = <<>> => items' = items
       /\ shown' = shown
       /\ events' = <<>>]_vars

C13_Witness ==
  /\ lastOp = "down"
  /\ ~shown
  /\ Len(items) >= 2
  /\ ActiveSet = {0}
  /\ ~navHandled

\* the events of a render call that ran to its end
RenderEvents(wasShown, showCanceled) ==
  IF wasShown THEN <<Ev("render"), Ev("rendered")>>
  ELSE IF showCanceled THEN <<Ev("render"), Ev("show"), Ev("rendered")>>
  ELSE <<Ev("render"), Ev("show"), Ev("shown"), Ev("rendered")>>

\* C14: a render of zero candidates that is not canceled leaves, from any
\* state, an empty collection with no active item and no strategy tag, only
\* the two decorations in the view, and still goes to shown (show and shown
\* are emitted when it was hidden and show is not canceled) before rendered.
C14_EmptyRender ==
  [][(lastOp' = "render" /\ lastBatch' = <<>> /\ "render" \notin prevented') =>
       /\ ~threw'
       /\ items' = <<>>
       /\ getActiveItem(items') = Undefined
       /\ el'.dataStrategy = ""
       /\ el'.children = <<"textcomplete-header", "textcomplete-footer">>
       /\ events' = RenderEvents(shown, "show" \in prevented')
       /\ shown' <=> (shown \/ "show" \notin prevented')]_vars

\* C15: clear leaves the collection empty, so that getActiveItem finds no
\* item, from any state; it raises nothing, emits nothing and leaves shown
\* alone, and on an empty collection it leaves the collection as it was.
C15_ClearEmpties ==
  [][(lastOp' = "clear") =>
       /\ ~threw'
       /\ items' = <<>>
       /\ getActiveItem(items') = Undefined
       /\ el'.children = <<>>
       /\ shown' = shown
       /\ events' = <<>>
       /\ items = <<>> => items' = items]_vars

\* C16: after a render that was not canceled the collection holds the first
\* min(maxCount, candidates.length) candidates of the batch in batch order:
\* the item at index i wraps the candidate at index i.
C16_ItemsArePrefixOfBatch ==
  RenderedNow =>
    /\ Len(items) = Min(maxCount, Len(lastBatch))
    /\ \A i \in 0..(Len(items) - 1) :
         /\ At(items, i).searchResult = lastBatch[i + 1]
         /\ At(items, i).index = i

\* C17: a destroy call that follows a destroy call raises no error, emits
\* nothing and leaves the items, the released view handle and the shown flag
\* exactly as the first call left them.
C17_SecondDestroyIsNoOp ==
  [][(lastOp = "destroy" /\ lastOp' = "destroy") =>
       /\ ~threw'
       /\ items' = items
       /\ el' = el
       /\ shown' = shown
       /\ events' = <<>>]_vars

\* C18: in a collection of length n > 0 the item at position p has
\* next = collection[(p + 1) mod n] and prev = collection[(p - 1 + n) mod n].
C18_LinksAreModular ==
  \A p \in 0..(Len(items) - 1) :
    /\ next(At(items, p), items) = (p + 1) % Len(items)
    /\ prev(At(items, p), items) = (p - 1 + Len(items)) % Len(items)

C18_Witness ==
  /\ Len(items) >= 2
  /\ next(At(items, Len(items) - 1), items) = 0
  /\ prev(At(items, 0), items) = Len(items) - 1

\* C19: under the dropdown's own methods (DropdownSpec), as long as the
\* collection is kept no active flag goes back to false, and whenever the
\* collection is non-empty the item at index 0 is active and is the item
\* getActiveItem returns.
C19_ActiveNeverCleared ==
  /\ [](items # <<>> => (At(items, 0).active /\ getActiveItem(items) = 0))
  /\ [][(items' # <<>> /\ ~(lastOp' = "render" /\ "render" \notin prevented' /\ ~threw')) =>
          /\ Len(items') = Len(items)
          /\ \A i \in 0..(Len(items) - 1) :
               At(items, i).active => At(items', i).active]_vars

C19_Witness ==
  /\ lastOp = "down"
  /\ Len(items) >= 2
  /\ ActiveSet = {0, 1}
  /\ getActiveItem(items) = 0

\* C20: destroy emits no event and leaves the shown flag as it was, while
\* emptying the collection and releasing the view handle; a shown dropdown
\* ends shown with an empty collection.
C20_DestroyKeepsShown ==
  [][(lastOp' = "destroy") =>
       /\ events' = <<>>
       /\ shown' = shown
       /\ lastVis' = lastVis
       /\ items' = <<>>
       /\ el' = NullEl]_vars
====
